---- MODULE Spec2Model ----
(***************************************************************************)
(* A model of PyBTree (src/btree.py): a B-tree of minimum degree t whose   *)
(* node slots hold either one Pair or a PairList of Pairs sharing a key.   *)
(*                                                                         *)
(* A Pair object is a record [id, key, val]; id stands for the object's    *)
(* identity (Python's id()) and grows with the order of creation.  A node  *)
(* slot is a record [grp, key, ms]: grp = FALSE is a bare Pair (ms holds   *)
(* that one Pair), grp = TRUE is a PairList whose pairs are ms.  A Node is *)
(* a record [pairs, children]; the children of a leaf are None.            *)
(***************************************************************************)
EXTENDS Integers, Sequences, FiniteSets, TLC

VARIABLES
    root,     \* BTree.root
    degree,   \* BTree.__degree
    nextId,   \* the identity of the next Pair the caller creates
    calls,    \* how many more insert or delete calls the caller will make
    live,     \* the Pairs inserted and not removed since, as the caller knows them
    last      \* the last call: [op, key, id, raised, before]; id is 0 for a
              \* Pair that was never inserted, and for delete(key); before is
              \* list(tree) as it was when the call was made

vars == <<root, degree, nextId, calls, live, last>>

(* ------------------------------ bounds -------------------------------- *)

\* insert() draws its keys from 1..MaxKey
MaxKey == 4
\* calls made on a tree constructed empty
MaxCalls == 4
\* calls made on a tree constructed from a list of pairs
DeepCalls == 2
\* calls made on the largest tree constructed from a list of pairs
WideCalls == 1
\* the longest list of pairs inserted and then deleted one by one
DrainLen == 5
\* the calls made on the tall tree
RetryCalls == 6
\* the calls made where split_child is one of them
SplitCalls == 2
\* split_child is tried on the children 0..SplitWidth of a node
SplitWidth == 4

Keys == 1..MaxKey

\* the payload of the Pair with identity id: opaque to the tree
ValOf(id) == <<"a", "b", "c">>[(id % 3) + 1]

(* --------------------------- list helpers ----------------------------- *)

\* Python list.insert(i, x), i 0-based and 0 <= i <= len
ListInsert(s, i, x) == SubSeq(s, 1, i) \o <<x>> \o SubSeq(s, i + 1, Len(s))
\* Python list.pop(i), i 0-based: the list left behind
ListPop(s, i) == SubSeq(s, 1, i) \o SubSeq(s, i + 2, Len(s))

(* ------------------------- Pair and PairList -------------------------- *)

Pair(id, key, val) == [id |-> id, key |-> key, val |-> val]
\* a bare Pair stored in a node slot
Bare(p) == [grp |-> FALSE, key |-> p.key, ms |-> <<p>>]
\* PairList(key, pairs)
PairList(key, pairs) == [grp |-> TRUE, key |-> key, ms |-> pairs]

(* -------------------------------- Node -------------------------------- *)

\* the absent child of a leaf
None == [pairs |-> <<>>, children |-> <<>>]

max_pairs(t) == 2 * t - 1
min_pairs(t) == t - 1

Node(pairs, children) == [pairs |-> pairs, children |-> children]
new_node == Node(<<>>, <<None>>)

\* Node.__init__ raises ValueError unless children are all None or all nodes
\* and there is one more child than pairs
NodeCtorOK(pairs, children) ==
    LET cnt == Cardinality({i \in 1..Len(children) : children[i] = None})
    IN  /\ (cnt = Len(children) \/ cnt = 0)
        /\ Len(children) - Len(pairs) = 1

is_leaf(node) == node.children[1] = None
is_full(node, t) == Len(node.pairs) = max_pairs(t)

\* bisect.bisect_left(a, x, lo, hi) on the slots' keys
RECURSIVE bisect_left(_, _, _, _)
bisect_left(a, x, lo, hi) ==
    IF lo < hi
    THEN LET mid == (lo + hi) \div 2
         IN  IF a[mid + 1].key < x
             THEN bisect_left(a, x, mid + 1, hi)
             ELSE bisect_left(a, x, lo, mid)
    ELSE lo

\* Node.index: the 0-based position and whether the slot there has the key
index(node, key) ==
    LET idx == bisect_left(node.pairs, key, 0, Len(node.pairs))
    IN  [idx |-> idx,
         found |-> ~(idx = Len(node.pairs) \/ node.pairs[idx + 1].key # key)]

\* split_child moving the entry below the median up
split_child_low(node, idx, t) ==
    LET right == node.children[idx + 1]
        mid == max_pairs(t) \div 2
        mid_pair == right.pairs[mid]
        left == Node(SubSeq(right.pairs, 1, mid), SubSeq(right.children, 1, mid + 1))
        right2 == Node(SubSeq(right.pairs, mid + 2, Len(right.pairs)),
                       SubSeq(right.children, mid + 2, Len(right.children)))
    IN  Node(ListInsert(node.pairs, idx, mid_pair),
             [ListInsert(node.children, idx, left) EXCEPT ![idx + 2] = right2])

\* Node.split_child(index): the parent after the split
split_child(node, idx, t) ==
    LET right == node.children[idx + 1]
        mid == max_pairs(t) \div 2
        mid_pair == right.pairs[mid + 1]
        left == Node(SubSeq(right.pairs, 1, mid), SubSeq(right.children, 1, mid + 1))
        right2 == Node(SubSeq(right.pairs, mid + 2, Len(right.pairs)),
                       SubSeq(right.children, mid + 2, Len(right.children)))
    IN  Node(ListInsert(node.pairs, idx, mid_pair),
             [ListInsert(node.children, idx, left) EXCEPT ![idx + 2] = right2])

\* the Node() call inside split_child does not raise
split_child_ok(node, idx, t) ==
    LET right == node.children[idx + 1]
        mid == max_pairs(t) \div 2
    IN  /\ Len(right.pairs) > mid
        /\ NodeCtorOK(SubSeq(right.pairs, 1, mid), SubSeq(right.children, 1, mid + 1))

\* merge_children leaving the separating slot out of the merged child
merge_children_lossy(node, idx) ==
    LET left_child == node.children[idx + 1]
        right_child == node.children[idx + 2]
        merged == Node(left_child.pairs \o right_child.pairs,
                       left_child.children \o right_child.children)
    IN  Node(ListPop(node.pairs, idx),
             [ListPop(node.children, idx + 1) EXCEPT ![idx + 1] = merged])

\* Node.merge_children(index): the parent after the merge; the merged child
\* is its child at position index
merge_children(node, idx) ==
    LET left_child == node.children[idx + 1]
        right_child == node.children[idx + 2]
        merged == Node(Append(left_child.pairs, node.pairs[idx + 1]) \o right_child.pairs,
                       left_child.children \o right_child.children)
    IN  Node(ListPop(node.pairs, idx),
             [ListPop(node.children, idx + 1) EXCEPT ![idx + 1] = merged])

(* ------------------------------ iteration ----------------------------- *)

\* BTree.__iter__.yield_pair
yield_pair(slot) == IF slot.grp THEN slot.ms ELSE <<slot.ms[1]>>

\* BTree.__iter__.dfs
RECURSIVE dfs(_)
dfs(node) ==
    LET n == Len(node.pairs)
        upto[i \in 0..n] ==
            IF i = 0 THEN <<>>
            ELSE upto[i - 1]
                 \o (IF ~is_leaf(node) THEN dfs(node.children[i]) ELSE <<>>)
                 \o yield_pair(node.pairs[i])
    IN  upto[n] \o (IF ~is_leaf(node) THEN dfs(node.children[n + 1]) ELSE <<>>)

\* list(tree)
iter(r) == dfs(r)

(* ------------------------------ insertion ----------------------------- *)

\* insert_slot overwriting the slot that has the key
insert_slot_overwrite(node, idx, pair) ==
    IF idx < Len(node.pairs) /\ node.pairs[idx + 1].key = pair.key
    THEN [node EXCEPT !.pairs[idx + 1] = Bare(pair)]
    ELSE Node(ListInsert(node.pairs, idx, Bare(pair)),
              ListInsert(node.children, idx, None))

\* insert_slot putting the new Pair in front of those that share its key
insert_slot_prepend(node, idx, pair) ==
    IF idx < Len(node.pairs) /\ node.pairs[idx + 1].key = pair.key
    THEN [node EXCEPT !.pairs[idx + 1] = PairList(pair.key, <<pair>> \o @.ms)]
    ELSE Node(ListInsert(node.pairs, idx, Bare(pair)),
              ListInsert(node.children, idx, None))

\* BTree.insert after _find_insert returned (node, index): the node updated
insert_slot(node, idx, pair) ==
    IF idx < Len(node.pairs) /\ node.pairs[idx + 1].key = pair.key
    THEN LET successor == node.pairs[idx + 1]
         IN  IF successor.grp
             THEN [node EXCEPT !.pairs[idx + 1].ms = Append(@, pair)]
             ELSE [node EXCEPT !.pairs[idx + 1] =
                       PairList(successor.key, <<successor.ms[1], pair>>)]
    ELSE Node(ListInsert(node.pairs, idx, Bare(pair)),
              ListInsert(node.children, idx, None))

\* what _find_insert does on its way down, for those who watch it: it splits
\* a child of a node (ev = "split"), moves on to a child (ev = "enter"), or
\* returns a node for the Pair to be put in (ev = "return", found: the node has
\* the key already); n is the number of entries of the node split under, moved
\* to or returned, at that moment
Step(ev, node, found) == [ev |-> ev, n |-> Len(node.pairs), found |-> found]

\* the loop of _find_insert stopping at leaves only
RECURSIVE find_insert_loop_leaf(_, _, _)
find_insert_loop_leaf(cur_node, pair, t) ==
    LET r == index(cur_node, pair.key)
    IN  IF is_leaf(cur_node)
        THEN [node |-> insert_slot(cur_node, r.idx, pair), err |-> FALSE,
              log |-> <<Step("return", cur_node, r.found)>>]
        ELSE IF is_full(cur_node.children[r.idx + 1], t)
        THEN LET sub == find_insert_loop_leaf(split_child(cur_node, r.idx, t), pair, t)
             IN  [sub EXCEPT !.log = <<Step("split", cur_node, FALSE)>> \o @]
        ELSE LET next == cur_node.children[r.idx + 1]
                 sub == find_insert_loop_leaf(next, pair, t)
             IN  [node |-> [cur_node EXCEPT !.children[r.idx + 1] = sub.node],
                  err |-> sub.err,
                  log |-> <<Step("enter", next, FALSE)>> \o sub.log]

\* the loop of _find_insert going down without splitting the full children
RECURSIVE find_insert_loop_down(_, _, _)
find_insert_loop_down(cur_node, pair, t) ==
    LET r == index(cur_node, pair.key)
    IN  IF r.found \/ is_leaf(cur_node)
        THEN [node |-> insert_slot(cur_node, r.idx, pair), err |-> FALSE,
              log |-> <<Step("return", cur_node, r.found)>>]
        ELSE LET next == cur_node.children[r.idx + 1]
                 sub == find_insert_loop_down(next, pair, t)
             IN  [node |-> [cur_node EXCEPT !.children[r.idx + 1] = sub.node],
                  err |-> sub.err,
                  log |-> <<Step("enter", next, FALSE)>> \o sub.log]

\* the loop of BTree._find_insert from cur_node, splitting full children on the
\* way down, followed by BTree.insert's update of the node it returns; log is
\* what the loop did, step by step
RECURSIVE find_insert_loop(_, _, _)
find_insert_loop(cur_node, pair, t) ==
    LET r == index(cur_node, pair.key)
    IN  IF r.found \/ is_leaf(cur_node)
        THEN [node |-> insert_slot(cur_node, r.idx, pair), err |-> FALSE,
              log |-> <<Step("return", cur_node, r.found)>>]
        ELSE IF is_full(cur_node.children[r.idx + 1], t)
        THEN IF split_child_ok(cur_node, r.idx, t)
             THEN LET sub == find_insert_loop(split_child(cur_node, r.idx, t), pair, t)
                  IN  [sub EXCEPT !.log = <<Step("split", cur_node, FALSE)>> \o @]
             ELSE [node |-> cur_node, err |-> TRUE,
                   log |-> <<Step("split", cur_node, FALSE)>>]
        ELSE LET next == cur_node.children[r.idx + 1]
                 sub == find_insert_loop(next, pair, t)
             IN  [node |-> [cur_node EXCEPT !.children[r.idx + 1] = sub.node],
                  err |-> sub.err,
                  log |-> <<Step("enter", next, FALSE)>> \o sub.log]

\* _find_insert going down from a full root without splitting it
split_root_never(r, t) == [node |-> r, err |-> FALSE, log |-> <<Step("enter", r, FALSE)>>]

\* the split of a full root hanging the first child of the old root's left
\* half in the place of that half
split_root_shallow(r, t) ==
    IF is_full(r, t)
    THEN LET new_root == Node(<<>>, <<r>>)
             top == split_child(new_root, 0, t)
             low == IF is_leaf(top.children[1]) THEN top
                    ELSE [top EXCEPT !.children[1] = @.children[1]]
         IN  [node |-> low, err |-> FALSE,
              log |-> <<Step("split", new_root, FALSE), Step("enter", low, FALSE)>>]
    ELSE [node |-> r, err |-> FALSE, log |-> <<Step("enter", r, FALSE)>>]

\* BTree._find_insert's split of a full root, and cur_node = self.root
split_root(r, t) ==
    IF is_full(r, t)
    THEN LET new_root == Node(<<>>, <<r>>)
         IN  IF split_child_ok(new_root, 0, t)
             THEN LET top == split_child(new_root, 0, t)
                  IN  [node |-> top, err |-> FALSE,
                       log |-> <<Step("split", new_root, FALSE), Step("enter", top, FALSE)>>]
             ELSE [node |-> new_root, err |-> TRUE,
                   log |-> <<Step("split", new_root, FALSE)>>]
    ELSE [node |-> r, err |-> FALSE, log |-> <<Step("enter", r, FALSE)>>]

\* BTree.insert(pair): the new root, whether the call raised, and what
\* _find_insert did
insert(r, pair, t) ==
    LET top == split_root(r, t)
    IN  IF top.err THEN top
        ELSE LET sub == find_insert_loop(top.node, pair, t)
             IN  [sub EXCEPT !.log = top.log \o @]

(* -------------------------------- search ------------------------------ *)

\* what a search that finds nothing returns (Python's None)
NoSlot == [grp |-> FALSE, key |-> 0, ms |-> <<>>]
NoResult == [none |-> TRUE, items |-> <<>>]

\* BTree._find(key): the matching slot, or NoSlot
RECURSIVE find(_, _)
find(cur_node, key) ==
    LET r == index(cur_node, key)
    IN  IF r.found THEN cur_node.pairs[r.idx + 1]
        ELSE IF cur_node.children[r.idx + 1] = None THEN NoSlot
        ELSE find(cur_node.children[r.idx + 1], key)

\* search_all returning the first Pair of a PairList only
search_all_first(r, key, value_only) ==
    LET match == find(r, key)
    IN  IF match = NoSlot THEN NoResult
        ELSE IF value_only
        THEN [none |-> FALSE, items |-> <<match.ms[1].val>>]
        ELSE [none |-> FALSE, items |-> <<match.ms[1]>>]

\* BTree.search_all(key, value_only): the list returned (items), or NoResult
search_all(r, key, value_only) ==
    LET match == find(r, key)
    IN  IF match = NoSlot THEN NoResult
        ELSE LET lst == IF ~match.grp THEN <<match.ms[1]>> ELSE match.ms
             IN  IF value_only
                 THEN [none |-> FALSE, items |-> [i \in 1..Len(lst) |-> lst[i].val]]
                 ELSE [none |-> FALSE, items |-> lst]

(* ------------------------------- deletion ----------------------------- *)

\* the 1-based position of the first member of a PairList that is the object
\* id (the loop of lines 287-291), 0 when there is none
RECURSIVE member_at(_, _, _)
member_at(ms, id, i) ==
    IF i > Len(ms) THEN 0
    ELSE IF ms[i].id = id THEN i
    ELSE member_at(ms, id, i + 1)

\* delete_member leaving a PairList of one Pair in the slot
delete_member_keep(node, idx, id) ==
    LET target == node.pairs[idx + 1]
        i == member_at(target.ms, id, 1)
    IN  IF i = 0 THEN [node |-> node, err |-> TRUE]
        ELSE [node |-> [node EXCEPT !.pairs[idx + 1].ms = ListPop(target.ms, i - 1)],
              err |-> FALSE]

\* _delete on a PairList with identity checking (lines 285-296)
delete_member(node, idx, id) ==
    LET target == node.pairs[idx + 1]
        i == member_at(target.ms, id, 1)
    IN  IF i = 0 THEN [node |-> node, err |-> TRUE]
        ELSE LET rest == ListPop(target.ms, i - 1)
             IN  IF Len(rest) <= 1
                 THEN IF Len(rest) = 1
                      THEN [node |-> [node EXCEPT !.pairs[idx + 1] = Bare(rest[1])],
                            err |-> FALSE]
                      ELSE [node |-> [node EXCEPT !.pairs[idx + 1].ms = rest],
                            err |-> TRUE]
                 ELSE [node |-> [node EXCEPT !.pairs[idx + 1].ms = rest],
                       err |-> FALSE]

\* the maximum slot of a subtree (lines 310-313)
RECURSIVE predecessor_of(_)
predecessor_of(ptr) ==
    IF is_leaf(ptr) THEN ptr.pairs[Len(ptr.pairs)]
    ELSE predecessor_of(ptr.children[Len(ptr.children)])

\* the minimum slot of a subtree (lines 318-321)
RECURSIVE successor_of(_)
successor_of(ptr) ==
    IF is_leaf(ptr) THEN ptr.pairs[1]
    ELSE successor_of(ptr.children[1])

\* lines 336-338: next_child = children[idx] takes the separator and the last
\* child of its left sibling, whose last slot becomes the separator
borrow_left(node, idx) ==
    LET next_child == node.children[idx + 1]
        left_sibling == node.children[idx]
        filled == Node(ListInsert(next_child.pairs, 0, node.pairs[idx]),
                       ListInsert(next_child.children, 0,
                                  left_sibling.children[Len(left_sibling.children)]))
        shrunk == Node(SubSeq(left_sibling.pairs, 1, Len(left_sibling.pairs) - 1),
                       SubSeq(left_sibling.children, 1, Len(left_sibling.children) - 1))
    IN  Node([node.pairs EXCEPT ![idx] = left_sibling.pairs[Len(left_sibling.pairs)]],
             [node.children EXCEPT ![idx] = shrunk, ![idx + 1] = filled])

\* borrowing from the right sibling with the separator left as it was
borrow_right_stale(node, idx) ==
    LET next_child == node.children[idx + 1]
        right_sibling == node.children[idx + 2]
        filled == Node(Append(next_child.pairs, node.pairs[idx + 1]),
                       Append(next_child.children, right_sibling.children[1]))
        shrunk == Node(ListPop(right_sibling.pairs, 0), ListPop(right_sibling.children, 0))
    IN  Node(node.pairs, [node.children EXCEPT ![idx + 1] = filled, ![idx + 2] = shrunk])

\* lines 343-345: the mirror image, from the right sibling
borrow_right(node, idx) ==
    LET next_child == node.children[idx + 1]
        right_sibling == node.children[idx + 2]
        filled == Node(Append(next_child.pairs, node.pairs[idx + 1]),
                       Append(next_child.children, right_sibling.children[1]))
        shrunk == Node(ListPop(right_sibling.pairs, 0), ListPop(right_sibling.children, 0))
    IN  Node([node.pairs EXCEPT ![idx + 1] = right_sibling.pairs[1]],
             [node.children EXCEPT ![idx + 1] = filled, ![idx + 2] = shrunk])

\* what _delete does on its way down, for those who watch it: it is called on
\* a node of n entries (ev = "call"), or it calls merge_children on two
\* children of l and r entries, which makes a child of n entries (ev = "merge")
Called(node) == [ev |-> "call", n |-> Len(node.pairs), l |-> 0, r |-> 0]
Merged(node, idx) ==
    [ev |-> "merge",
     n |-> Len(merge_children(node, idx).children[idx + 1].pairs),
     l |-> Len(node.children[idx + 1].pairs),
     r |-> Len(node.children[idx + 2].pairs)]

\* rebalance with the borrowing and merging left out
rebalance_skip(node, idx, t) == [node |-> node, at |-> idx, log |-> <<>>]

\* rebalance merging where it could borrow
rebalance_merge(node, idx, t) ==
    LET next_child == node.children[idx + 1]
        n == Len(node.pairs)
    IN  IF Len(next_child.pairs) <= min_pairs(t)
        THEN IF idx < n
             THEN [node |-> merge_children(node, idx), at |-> idx,
                   log |-> <<Merged(node, idx)>>]
             ELSE IF idx >= 1
             THEN [node |-> merge_children(node, idx - 1), at |-> idx - 1,
                   log |-> <<Merged(node, idx - 1)>>]
             ELSE [node |-> node, at |-> idx, log |-> <<>>]
        ELSE [node |-> node, at |-> idx, log |-> <<>>]

\* lines 330-351: the node after rebalancing around children[idx], the
\* position of the child the deletion goes on in, and the merge_children call
\* made, if any
rebalance(node, idx, t) ==
    LET next_child == node.children[idx + 1]
        n == Len(node.pairs)
    IN  IF Len(next_child.pairs) <= min_pairs(t)
        THEN IF idx >= 1 /\ Len(node.children[idx].pairs) > min_pairs(t)
             THEN [node |-> borrow_left(node, idx), at |-> idx, log |-> <<>>]
             ELSE IF idx < n /\ Len(node.children[idx + 2].pairs) > min_pairs(t)
             THEN [node |-> borrow_right(node, idx), at |-> idx, log |-> <<>>]
             ELSE IF idx < n
             THEN [node |-> merge_children(node, idx), at |-> idx,
                   log |-> <<Merged(node, idx)>>]
             ELSE IF idx >= 1
             THEN [node |-> merge_children(node, idx - 1), at |-> idx - 1,
                   log |-> <<Merged(node, idx - 1)>>]
             ELSE [node |-> node, at |-> idx, log |-> <<>>]
        ELSE [node |-> node, at |-> idx, log |-> <<>>]

\* BTree._delete(node, pair, ignore_id), pair given by its key and identity:
\* the node as the call leaves it, whether the call raised, and what the call
\* and the calls it made did
RECURSIVE delete_rec(_, _, _, _, _)
delete_rec(node, key, id, ignore_id, t) ==
    LET r == index(node, key)
        idx == r.idx
        here == <<Called(node)>>
    IN  IF ~ignore_id /\ r.found /\ node.pairs[idx + 1].grp
        THEN LET res == delete_member(node, idx, id)
             IN  [node |-> res.node, err |-> res.err, log |-> here]
        ELSE IF ~ignore_id /\ r.found /\ node.pairs[idx + 1].ms[1].id # id
        THEN [node |-> node, err |-> TRUE, log |-> here]
        ELSE IF r.found
        THEN IF is_leaf(node)
             THEN [node |-> Node(ListPop(node.pairs, idx), ListPop(node.children, idx)),
                   err |-> FALSE, log |-> here]
             ELSE LET left_child == node.children[idx + 1]
                      right_child == node.children[idx + 2]
                  IN  IF Len(left_child.pairs) > min_pairs(t)
                      THEN LET predecessor == predecessor_of(left_child)
                               sub == delete_rec(left_child, predecessor.key, 0, TRUE, t)
                           IN  IF sub.err
                               THEN [node |-> [node EXCEPT !.children[idx + 1] = sub.node],
                                     err |-> TRUE, log |-> here \o sub.log]
                               ELSE [node |-> [node EXCEPT !.children[idx + 1] = sub.node,
                                                           !.pairs[idx + 1] = predecessor],
                                     err |-> FALSE, log |-> here \o sub.log]
                      ELSE IF Len(right_child.pairs) > min_pairs(t)
                      THEN LET successor == successor_of(right_child)
                               sub == delete_rec(right_child, successor.key, 0, TRUE, t)
                           IN  IF sub.err
                               THEN [node |-> [node EXCEPT !.children[idx + 2] = sub.node],
                                     err |-> TRUE, log |-> here \o sub.log]
                               ELSE [node |-> [node EXCEPT !.children[idx + 2] = sub.node,
                                                           !.pairs[idx + 1] = successor],
                                     err |-> FALSE, log |-> here \o sub.log]
                      ELSE LET merged == merge_children(node, idx)
                               sub == delete_rec(merged.children[idx + 1], key, id, TRUE, t)
                           IN  [node |-> [merged EXCEPT !.children[idx + 1] = sub.node],
                                err |-> sub.err,
                                log |-> here \o <<Merged(node, idx)>> \o sub.log]
        ELSE IF node.children[idx + 1] = None
        THEN [node |-> node, err |-> TRUE, log |-> here]
        ELSE LET b == rebalance(node, idx, t)
                 sub == delete_rec(b.node.children[b.at + 1], key, id, ignore_id, t)
             IN  [node |-> [b.node EXCEPT !.children[b.at + 1] = sub.node],
                  err |-> sub.err, log |-> here \o b.log \o sub.log]

\* _kick_off_root keeping an empty root
kick_off_root_never(r) == r

\* BTree._kick_off_root
kick_off_root(r) ==
    IF Len(r.pairs) = 0 /\ ~is_leaf(r) THEN r.children[1] ELSE r

\* delete_one matching by key alone
delete_one_by_key(r, pair, t) ==
    LET res == delete_rec(r, pair.key, pair.id, TRUE, t)
    IN  IF res.err THEN res ELSE [res EXCEPT !.node = kick_off_root(@)]

\* BTree.delete_one(pair): the new root, whether the call raised, and what
\* _delete did
delete_one(r, pair, t) ==
    LET res == delete_rec(r, pair.key, pair.id, FALSE, t)
    IN  IF res.err THEN res ELSE [res EXCEPT !.node = kick_off_root(@)]

\* delete removing one Pair of a PairList only
delete_first(r, key, t) ==
    LET slot == find(r, key)
    IN  IF slot # NoSlot /\ slot.grp
        THEN delete_one(r, slot.ms[1], t)
        ELSE LET res == delete_rec(r, key, 0, TRUE, t)
             IN  IF res.err THEN res ELSE [res EXCEPT !.node = kick_off_root(@)]

\* BTree.delete(key): the new root, whether the call raised, and what _delete
\* did
delete(r, key, t) ==
    LET res == delete_rec(r, key, 0, TRUE, t)
    IN  IF res.err THEN res ELSE [res EXCEPT !.node = kick_off_root(@)]

(* ------------------------------ validation ---------------------------- *)

\* no bound on a side (Python's None for low and high)
Unbounded == -1

\* the loop "check the pairs are sorted" (lines 394-397)
sorted_from(pairs, i) ==
    \A j \in (i + 1)..Len(pairs) : ~(pairs[j].key < pairs[j - 1].key)

\* BTree.is_valid.check_node(node, low, high); is_root is node == self.root
RECURSIVE check_node(_, _, _, _, _)
check_node(node, is_root, low, high, t) ==
    IF is_root /\ Len(node.pairs) = 0 THEN TRUE
    ELSE IF ~is_root /\ Len(node.pairs) < min_pairs(t) THEN FALSE
    ELSE IF Len(node.pairs) > max_pairs(t) THEN FALSE
    ELSE IF Len(node.children) - Len(node.pairs) # 1 THEN FALSE
    ELSE LET none_cnt == Cardinality({i \in 1..Len(node.children) :
                                         node.children[i] = None})
             n == Len(node.pairs)
         IN  IF ~is_leaf(node) /\ none_cnt # 0 THEN FALSE
             ELSE IF is_leaf(node) /\ none_cnt # n + 1 THEN FALSE
             ELSE IF low # Unbounded /\ node.pairs[1].key <= low THEN FALSE
             ELSE IF ~sorted_from(node.pairs, 1) THEN FALSE
             ELSE IF high # Unbounded /\ node.pairs[n].key >= high THEN FALSE
             ELSE IF ~is_leaf(node)
             THEN LET tmp_pairs == <<low>> \o [i \in 1..n |-> node.pairs[i].key]
                                   \o <<high>>
                  IN  \A i \in 1..(n + 1) :
                          check_node(node.children[i], FALSE,
                                     tmp_pairs[i], tmp_pairs[i + 1], t)
             ELSE TRUE

\* BTree.is_valid()
is_valid(r, t) == check_node(r, TRUE, Unbounded, Unbounded, t)

(* ----------------------------- construction --------------------------- *)

\* BTree.__init__(pairs, degree): insert the pairs one by one, up to the first
\* insert that raises
RECURSIVE build(_, _, _, _)
build(r, keys, i, t) ==
    IF i > Len(keys) THEN r
    ELSE LET res == insert(r, Pair(i, keys[i], ValOf(i)), t)
         IN  IF res.err THEN res.node ELSE build(res.node, keys, i + 1, t)

\* the constructor calls: degree, the keys of the pairs handed over, and how
\* many calls the caller makes afterwards
CtorCalls ==
    {[degree |-> 2, keys |-> <<>>, calls |-> MaxCalls],
     [degree |-> 3, keys |-> <<>>, calls |-> MaxCalls],
     [degree |-> 2, keys |-> <<1, 2, 3, 4, 5>>, calls |-> DeepCalls],
     [degree |-> 2, keys |-> <<2, 4, 6, 8, 10, 12, 14, 16, 18, 20>>, calls |-> DeepCalls],
     [degree |-> 2, keys |-> <<26, 24, 22, 20, 18, 16, 14, 12, 10, 8, 6, 4, 2>>,
      calls |-> WideCalls],
     [degree |-> 2, keys |-> <<8, 4, 12, 2, 6, 10, 14, 4, 12, 8, 16, 18, 20>>,
      calls |-> DeepCalls],
     [degree |-> 3, keys |-> <<2, 4, 6, 8, 10, 12, 14, 16, 18>>, calls |-> DeepCalls]}

Init ==
    \E c \in CtorCalls :
        /\ degree = c.degree
        /\ root = build(new_node, c.keys, 1, c.degree)
        /\ nextId = Len(c.keys) + 1
        /\ calls = c.calls
        /\ live = {Pair(i, c.keys[i], ValOf(i)) : i \in 1..Len(c.keys)}
        /\ last = [op |-> "init", key |-> 0, id |-> 0, raised |-> FALSE, before |-> <<>>]

(* -------------------------------- calls ------------------------------- *)

\* tree.insert(Pair(k, v)) with a Pair created for the call
Insert(k) ==
    LET pair == Pair(nextId, k, ValOf(nextId))
        res == insert(root, pair, degree)
    IN  /\ calls > 0
        /\ root' = res.node
        /\ nextId' = nextId + 1
        /\ calls' = calls - 1
        /\ live' = IF res.err THEN live ELSE live \cup {pair}
        /\ last' = [op |-> "insert", key |-> k, id |-> pair.id, raised |-> res.err,
                    before |-> iter(root)]
        /\ UNCHANGED degree

\* tree.delete_one(p) for a Pair p the caller inserted and has not removed
DeleteOne(p) ==
    LET res == delete_one(root, p, degree)
    IN  /\ calls > 0
        /\ root' = res.node
        /\ calls' = calls - 1
        /\ live' = IF res.err THEN live ELSE live \ {p}
        /\ last' = [op |-> "delete_one", key |-> p.key, id |-> p.id, raised |-> res.err,
                    before |-> iter(root)]
        /\ UNCHANGED <<degree, nextId>>

\* tree.delete(k) for a key k of some Pair the caller inserted and has not removed
Delete(k) ==
    LET res == delete(root, k, degree)
    IN  /\ calls > 0
        /\ root' = res.node
        /\ calls' = calls - 1
        /\ live' = IF res.err THEN live ELSE {e \in live : e.key # k}
        /\ last' = [op |-> "delete", key |-> k, id |-> 0, raised |-> res.err,
                    before |-> iter(root)]
        /\ UNCHANGED <<degree, nextId>>

LiveKeys == {e.key : e \in live}

Next ==
    \/ \E k \in Keys : Insert(k)
    \/ \E p \in live : DeleteOne(p)
    \/ \E k \in LiveKeys : Delete(k)

\* the caller inserts, and deletes only what it has inserted
Spec == Init /\ [][Next]_vars

\* the keys no Pair in the tree has that a mistaken call is made with: those
\* insert() draws from and the upper neighbours of the keys in the tree
AbsentKeys == (Keys \cup {k + 1 : k \in LiveKeys}) \ LiveKeys

\* a Pair with key k that was never inserted
Stranger(k) == Pair(0, k, "a")

\* tree.delete_one(Pair(k)) with a Pair that is not in the tree
DeleteOneStranger(k) ==
    LET res == delete_one(root, Stranger(k), degree)
    IN  /\ root' = res.node
        /\ last' = [op |-> "delete_one", key |-> k, id |-> 0, raised |-> res.err,
                    before |-> iter(root)]
        /\ calls > 0 /\ calls' = calls - 1
        /\ UNCHANGED <<degree, nextId, live>>

\* tree.delete(k) for a key k no Pair in the tree has
DeleteAbsent(k) ==
    LET res == delete(root, k, degree)
    IN  /\ root' = res.node
        /\ last' = [op |-> "delete", key |-> k, id |-> 0, raised |-> res.err,
                    before |-> iter(root)]
        /\ calls > 0 /\ calls' = calls - 1
        /\ UNCHANGED <<degree, nextId, live>>

NextErr ==
    \/ Next
    \/ \E k \in Keys \cup LiveKeys : DeleteOneStranger(k)
    \/ \E k \in AbsentKeys : DeleteAbsent(k)

\* the caller also deletes what is not in the tree
SpecErr == Init /\ [][NextErr]_vars

(* ------------------- insert everything, delete everything ------------- *)

\* the lists of keys the tree is built from before it is emptied: the short
\* lists over Keys, and lists that build a tree of height 3
DrainLists ==
    UNION {[1..n -> Keys] : n \in 0..DrainLen}
    \cup {<<2, 4, 6, 8, 10, 12, 14, 16, 18, 20>>,
          <<8, 4, 12, 2, 6, 10, 14, 4, 12, 8>>}

\* src/test/test_btree.py: the tree is built from a list of pairs
InitDrain ==
    \E t \in {2, 3} : \E keys \in DrainLists :
        /\ degree = t
        /\ root = build(new_node, keys, 1, t)
        /\ nextId = Len(keys) + 1
        /\ calls = Len(keys)
        /\ live = {Pair(i, keys[i], ValOf(i)) : i \in 1..Len(keys)}
        /\ last = [op |-> "init", key |-> 0, id |-> 0, raised |-> FALSE, before |-> <<>>]

\* src/test/test_btree.py: every pair inserted is deleted once, in any order
NextDrain == \E p \in live : DeleteOne(p)

SpecDrain == InitDrain /\ [][NextDrain]_vars

(* ------------- a tall tree, failing deletions, then one more call ------ *)

\* the keys of the pairs a tree of height 4 is built from whose nodes all hold
\* the minimum number of entries: insert() splits a full node on the way down
\* to a key that is already in the tree
TallKeys ==
    <<8, 16, 24, 16, 4, 12, 8, 20, 28, 24, 2, 6, 10, 14, 18, 22, 26, 30,
      4, 12, 20, 28, 8, 24, 16>>

\* BTree(pairs, degree=2) with the pairs of TallKeys
InitRetry ==
    /\ degree = 2
    /\ root = build(new_node, TallKeys, 1, 2)
    /\ nextId = Len(TallKeys) + 1
    /\ calls = RetryCalls
    /\ live = {Pair(i, TallKeys[i], ValOf(i)) : i \in 1..Len(TallKeys)}
    /\ last = [op |-> "init", key |-> 0, id |-> 0, raised |-> FALSE, before |-> <<>>]

\* the caller deletes keys that are not in the tree, and its last call is any
\* insert, delete_one or delete
NextRetry ==
    \/ \E k \in AbsentKeys : DeleteAbsent(k)
    \/ calls = 1 /\ Next

SpecRetry == InitRetry /\ [][NextRetry]_vars

(* ------------------------ split_child on its own --------------------- *)

\* the lists of keys the trees are built from that split_child is tried on:
\* those of CtorCalls, and the lists on the way to the tall tree, whose full
\* nodes are not all leaves
SplitLists ==
    {c.keys : c \in {d \in CtorCalls : d.degree = 2}}
    \cup {SubSeq(TallKeys, 1, n) : n \in 18..Len(TallKeys)}

\* BTree(pairs, degree) for the pairs of a list of SplitLists
InitSplit ==
    \E t \in {2, 3} : \E keys \in SplitLists :
        /\ degree = t
        /\ root = build(new_node, keys, 1, t)
        /\ nextId = Len(keys) + 1
        /\ calls = SplitCalls
        /\ live = {Pair(i, keys[i], ValOf(i)) : i \in 1..Len(keys)}
        /\ last = [op |-> "init", key |-> 0, id |-> 0, raised |-> FALSE, before |-> <<>>]

\* the node split_child is called on: the root for j = 0, else the root's
\* child j (counted from 1)
ParentAt(r, j) == IF j = 0 THEN r ELSE r.children[j]

\* node.split_child(i) for the node at j, where the call does not raise
SplitChild(j, i) ==
    LET parent == ParentAt(root, j)
    IN  /\ calls > 0
        /\ j > 0 => ~is_leaf(root) /\ j <= Len(root.children)
        /\ ~is_leaf(parent)
        /\ i < Len(parent.children)
        /\ split_child_ok(parent, i, degree)
        /\ root' = IF j = 0 THEN split_child(parent, i, degree)
                   ELSE [root EXCEPT !.children[j] = split_child(parent, i, degree)]
        /\ calls' = calls - 1
        /\ last' = [op |-> "split_child", key |-> i, id |-> j, raised |-> FALSE,
                    before |-> iter(root)]
        /\ UNCHANGED <<degree, nextId, live>>

NextSplit ==
    \/ \E k \in Keys : Insert(k)
    \/ \E j \in 0..SplitWidth : \E i \in 0..SplitWidth : SplitChild(j, i)

\* inserts, and split_child called on the root or on a child of the root
SpecSplit == InitSplit /\ [][NextSplit]_vars

(* ------------------------- what the claims speak of ------------------- *)

\* all the children of the node are absent, or none is
AllOrNoChildren(node) ==
    \/ \A i \in 1..Len(node.children) : node.children[i] = None
    \/ \A i \in 1..Len(node.children) : node.children[i] # None

\* the node invariants of a subtree whose keys must lie strictly between low
\* and high (Unbounded: no bound on that side)
RECURSIVE NodeInvariants(_, _, _, _, _)
NodeInvariants(node, is_root, low, high, t) ==
    LET n == Len(node.pairs)
        bound == <<low>> \o [i \in 1..n |-> node.pairs[i].key] \o <<high>>
    IN  /\ n <= 2 * t - 1
        /\ is_root \/ n >= t - 1
        /\ Len(node.children) = n + 1
        /\ AllOrNoChildren(node)
        /\ \A i \in 1..(n - 1) : node.pairs[i].key < node.pairs[i + 1].key
        /\ \A i \in 1..n : /\ low = Unbounded \/ low < node.pairs[i].key
                           /\ high = Unbounded \/ node.pairs[i].key < high
        /\ \A i \in 1..Len(node.children) :
               node.children[i] # None =>
                   NodeInvariants(node.children[i], FALSE, bound[i], bound[i + 1], t)

\* the height of a subtree: 1 for a leaf
RECURSIVE Height(_)
Height(node) == IF is_leaf(node) THEN 1 ELSE 1 + Height(node.children[1])

\* the slots of a subtree, in order
RECURSIVE Slots(_)
Slots(node) ==
    LET n == Len(node.pairs)
        upto[i \in 0..n] ==
            IF i = 0 THEN <<>>
            ELSE upto[i - 1]
                 \o (IF ~is_leaf(node) THEN Slots(node.children[i]) ELSE <<>>)
                 \o <<node.pairs[i]>>
    IN  upto[n] \o (IF ~is_leaf(node) THEN Slots(node.children[n + 1]) ELSE <<>>)

\* the elements of a sequence
Range(seq) == {seq[i] : i \in 1..Len(seq)}

\* the Pairs of a set in the order they were created
RECURSIVE InOrder(_)
InOrder(S) ==
    IF S = {} THEN <<>>
    ELSE LET first == CHOOSE e \in S : \A o \in S : e.id <= o.id
         IN  <<first>> \o InOrder(S \ {first})

\* the Pairs of a sequence that have the key, and those that do not
WithKey(seq, k) == LET has(e) == e.key = k IN SelectSeq(seq, has)
WithoutKey(seq, k) == LET hasnot(e) == e.key # k IN SelectSeq(seq, hasnot)
\* the sequence without the Pair of that identity
WithoutId(seq, id) == LET other(e) == e.id # id IN SelectSeq(seq, other)

(* ------------------------------- claims ------------------------------- *)

\* C1: after the construction, after every insert and after every successful
\* delete_one or delete, is_valid() holds and every node satisfies the node
\* invariants: at most 2t-1 entries, at least t-1 unless it is the root, one
\* more child than entries, children all absent or all present, entries in
\* ascending key order, and keys strictly inside the interval the ancestors
\* leave to the subtree.
C1_Invariants ==
    ~last.raised =>
        /\ is_valid(root, degree)
        /\ NodeInvariants(root, TRUE, Unbounded, Unbounded, degree)

\* a deletion has just removed entries from a tree of height 3 in which a
\* child of the root holds the minimum number of entries
C1_Witness ==
    /\ last.op \in {"delete_one", "delete"}
    /\ ~last.raised
    /\ Height(root) = 3
    /\ \E i \in 1..Len(root.children) : Len(root.children[i].pairs) = degree - 1
    /\ Len(iter(root)) < Len(last.before)

\* C2: iterating the tree yields the entries in non-decreasing key order, and
\* entries with equal keys in the order in which they were inserted.
C2_IterationOrder ==
    LET it == iter(root)
    IN  \A i \in 1..(Len(it) - 1) :
            \/ it[i].key < it[i + 1].key
            \/ it[i].key = it[i + 1].key /\ it[i].id < it[i + 1].id

\* three entries with one key follow each other in a tree that is not a leaf,
\* after a deletion
C2_Witness ==
    /\ last.op = "delete_one"
    /\ ~last.raised
    /\ ~is_leaf(root)
    /\ \E k \in LiveKeys : Len(WithKey(iter(root), k)) >= 3

\* C3: iteration yields exactly the instances inserted and not removed since,
\* each one once.
C3_IterationIdentity ==
    LET it == iter(root)
    IN  /\ Range(it) = live
        /\ Len(it) = Cardinality(live)

\* a delete_one has removed one of several entries from a tree that is not a leaf
C3_Witness ==
    /\ last.op = "delete_one"
    /\ ~last.raised
    /\ ~is_leaf(root)
    /\ Cardinality(live) >= 4
    /\ Cardinality(LiveKeys) < Cardinality(live)

\* C4: deleting every inserted pair once, in any order, never raises, keeps
\* the tree valid after every step, and ends with a root that is a leaf with
\* no entries.
C4_DeleteToEmpty ==
    /\ last.op = "delete_one" => ~last.raised /\ is_valid(root, degree)
    /\ live = {} => root = new_node

\* the last of at least five pairs has been deleted
C4_Witness ==
    /\ last.op = "delete_one"
    /\ live = {}
    /\ nextId > 5
    /\ root = new_node

\* C5 as claimed: delete(key) on a tree holding entries with that key removes
\* exactly one of them and leaves the rest of the iteration as it was.
C5_RemovesExactlyOne ==
    (last.op = "delete" /\ WithKey(last.before, last.key) # <<>>) =>
        /\ ~last.raised
        /\ \E i \in 1..Len(last.before) :
               /\ last.before[i].key = last.key
               /\ iter(root) = ListPop(last.before, i - 1)

\* C5, amended: delete(key) on a tree holding k >= 1 entries with that key
\* does not raise and removes all k of them (the whole slot, a bare Entry or a
\* Duplicate Group); the entries with other keys stay, in the same order.
C5_RemovesAllWithKey ==
    (last.op = "delete" /\ WithKey(last.before, last.key) # <<>>) =>
        /\ ~last.raised
        /\ iter(root) = WithoutKey(last.before, last.key)

\* delete(key) has removed a Duplicate Group from a tree that is still not a leaf
C5_Witness ==
    /\ last.op = "delete"
    /\ ~last.raised
    /\ Len(WithKey(last.before, last.key)) >= 2
    /\ ~is_leaf(root)

\* the keys searched for: those in use, those insert() draws from, and
\* neighbours no entry has
SearchKeys == Keys \cup LiveKeys \cup {k + 1 : k \in LiveKeys}

\* C6: search_all(k) returns the entries with key k that are in the tree, in
\* insertion order (their values when value_only), and the no-result value
\* exactly when there is none.
C6_SearchAll ==
    \A k \in SearchKeys :
        LET want == InOrder({e \in live : e.key = k})
        IN  /\ search_all(root, k, FALSE) =
                   IF want = <<>> THEN NoResult ELSE [none |-> FALSE, items |-> want]
            /\ search_all(root, k, TRUE) =
                   IF want = <<>> THEN NoResult
                   ELSE [none |-> FALSE, items |-> [i \in 1..Len(want) |-> want[i].val]]

\* a Duplicate Group sits in an internal node, a bare Entry in a leaf, and
\* some key searched for is in neither
C6_Witness ==
    /\ ~is_leaf(root)
    /\ \E i \in 1..Len(root.pairs) : root.pairs[i].grp
    /\ \E k \in SearchKeys : search_all(root, k, TRUE) = NoResult
    /\ \E k \in SearchKeys : Len(search_all(root, k, TRUE).items) >= 3

\* C7: every Duplicate Group in the tree has at least two members, all with
\* the group's key; an insert of a key already there leaves the group of the
\* old entries followed by the new one; a delete_one leaves the remaining
\* entries, as a bare Entry when one remains.
C7_Groups ==
    /\ \A slot \in Range(Slots(root)) :
           /\ slot.grp => Len(slot.ms) >= 2
           /\ ~slot.grp => Len(slot.ms) = 1
           /\ \A e \in Range(slot.ms) : e.key = slot.key
    /\ (last.op = "insert" /\ ~last.raised) =>
           LET old == WithKey(last.before, last.key)
               new == Pair(last.id, last.key, ValOf(last.id))
           IN  find(root, last.key) =
                   IF old = <<>> THEN Bare(new)
                   ELSE PairList(last.key, Append(old, new))
    /\ (last.op = "delete_one" /\ ~last.raised) =>
           LET rest == WithoutId(WithKey(last.before, last.key), last.id)
           IN  find(root, last.key) =
                   IF rest = <<>> THEN NoSlot
                   ELSE IF Len(rest) = 1 THEN Bare(rest[1])
                   ELSE PairList(last.key, rest)

\* a delete_one has left one of two entries of a key, in an internal node
C7_Witness ==
    /\ last.op = "delete_one"
    /\ ~last.raised
    /\ Len(WithKey(last.before, last.key)) = 2
    /\ ~is_leaf(root)
    /\ \E i \in 1..Len(root.pairs) :
           root.pairs[i].key = last.key /\ ~root.pairs[i].grp

\* C8: insert never raises; iteration afterwards yields one entry more, the
\* new entry among them.
C8_InsertNeverFails ==
    last.op = "insert" =>
        /\ ~last.raised
        /\ Len(iter(root)) = Len(last.before) + 1
        /\ Pair(last.id, last.key, ValOf(last.id)) \in Range(iter(root))

\* the root was a full leaf of distinct keys and nothing had been deleted; the
\* insert of a key already there split the root and extended a slot of a leaf
C8_Witness ==
    /\ last.op = "insert"
    /\ Len(last.before) = 2 * degree - 1
    /\ nextId = Len(last.before) + 2
    /\ \A i, j \in 1..Len(last.before) :
           i # j => last.before[i].key # last.before[j].key
    /\ Height(root) = 2
    /\ ~root.pairs[1].grp
    /\ find(root, last.key).grp

\* C9: delete_one(p) raises when the instance p is not in the tree, delete(key)
\* raises when no entry has the key, and delete_one(p) with p in the tree does
\* not raise and removes p and nothing else.
C9_DeleteErrors ==
    /\ (last.op = "delete_one" /\ ~\E e \in Range(last.before) : e.id = last.id)
           => last.raised
    /\ (last.op = "delete" /\ WithKey(last.before, last.key) = <<>>)
           => last.raised
    /\ (last.op = "delete_one" /\ \E e \in Range(last.before) : e.id = last.id)
           => ~last.raised /\ iter(root) = WithoutId(last.before, last.id)

\* delete_one has been called with a Pair that is not in the tree and whose
\* key a Duplicate Group has
C9_Witness ==
    /\ last.op = "delete_one"
    /\ last.id = 0
    /\ last.raised
    /\ Len(WithKey(last.before, last.key)) >= 2

\* C10: no two slots of the tree hold the same key.
C10_UniqueKeys ==
    LET slots == Slots(root)
    IN  \A i, j \in 1..Len(slots) : i # j => slots[i].key # slots[j].key

\* the root was a full leaf of distinct keys and nothing had been deleted; the
\* insert split it and the key inserted is the one the split promoted
C10_Witness ==
    /\ last.op = "insert"
    /\ Len(last.before) = 2 * degree - 1
    /\ nextId = Len(last.before) + 2
    /\ \A i, j \in 1..Len(last.before) :
           i # j => last.before[i].key # last.before[j].key
    /\ Len(root.pairs) = 1
    /\ root.pairs[1].grp
    /\ root.pairs[1].key = last.key

\* a delete_one or delete call has just returned normally
DeleteReturned == last.op \in {"delete_one", "delete"} /\ ~last.raised

\* C11: after every delete_one or delete call that returns normally the root
\* has zero entries only if it is a leaf: one application of the root-shrink
\* rule is enough.
C11_RootShrunk == DeleteReturned => (Len(root.pairs) = 0 => is_leaf(root))

\* the last call was an insert made on a tree that three inserts of distinct
\* keys had built from empty with degree 2: its root was a full leaf
FourthInsert ==
    /\ degree = 2
    /\ last.op = "insert"
    /\ nextId = 5
    /\ calls = MaxCalls - 4
    /\ Cardinality(live) = 4
    /\ Cardinality({e.key : e \in Range(last.before)}) = 3

\* C12: an insert puts a new root above the old one, and the height grows by
\* one, exactly when the root held 2t-1 entries as insert was called, whether
\* the key is new or not; the new root then holds the old root's median.  In
\* every other insert the root's entries other than the one inserted, and the
\* height, stay; no other call makes the tree higher.
C12_RootSplit ==
    [][ /\ last'.op = "insert" =>
            /\ Height(root') = Height(root) + 1 <=> is_full(root, degree)
            /\ is_full(root, degree) =>
                   /\ Len(root'.pairs) = 1
                   /\ root'.pairs[1].key = root.pairs[degree].key
            /\ ~is_full(root, degree) =>
                   /\ Height(root') = Height(root)
                   /\ \A i \in 1..Len(root.pairs) :
                          \E j \in 1..Len(root'.pairs) :
                              root'.pairs[j].key = root.pairs[i].key
        /\ last'.op # "insert" => Height(root') <= Height(root)
      ]_vars

\* the fourth insert had the key of the full root's median: the root was split
\* and the Pair joined the median in the new root
C12_Witness ==
    /\ FourthInsert
    /\ Height(root) = 2
    /\ Len(root.pairs) = 1
    /\ root.pairs[1].grp
    /\ root.pairs[1].ms[2].id = last.id

\* what split_child(i) makes, q, of a parent that is not full and whose child
\* i holds exactly 2t-1 entries
SplitPost(parent, q, i, t) ==
    LET child == parent.children[i + 1]
        n == Len(parent.pairs)
    IN  /\ q.pairs[i + 1] = child.pairs[t]
        /\ Len(q.pairs) = n + 1
        /\ Len(q.children) = n + 2
        /\ q.children[i + 1].pairs = [k \in 1..(t - 1) |-> child.pairs[k]]
        /\ q.children[i + 1].children = [k \in 1..t |-> child.children[k]]
        /\ q.children[i + 2].pairs = [k \in 1..(t - 1) |-> child.pairs[t + k]]
        /\ q.children[i + 2].children = [k \in 1..t |-> child.children[t + k]]
        /\ \A k \in 1..i : q.pairs[k] = parent.pairs[k] /\ q.children[k] = parent.children[k]
        /\ \A k \in (i + 1)..n : q.pairs[k + 1] = parent.pairs[k]
        /\ \A k \in (i + 2)..(n + 1) : q.children[k + 1] = parent.children[k]
        /\ dfs(q) = dfs(parent)

\* C13: split_child(i) on a parent that is not full and whose child i holds
\* exactly 2t-1 entries moves the child's entry t-1 (0-based) to position i of
\* the parent, which gains one entry and one child; children i and i+1 hold
\* the lower t-1 entries with the first t child links and the upper t-1
\* entries with the last t child links; the parent's other entries and
\* children keep their order, and the in-order sequence of the tree stays.
C13_SplitChild ==
    [][ last'.op = "split_child" =>
            LET i == last'.key
                j == last'.id
                parent == ParentAt(root, j)
            IN  (~is_full(parent, degree) /\ is_full(parent.children[i + 1], degree))
                    => /\ SplitPost(parent, ParentAt(root', j), i, degree)
                       /\ iter(root') = iter(root)
      ]_vars

\* split_child has just divided a full node that is not a leaf, under a parent
\* that was not full
C13_Witness ==
    /\ last.op = "split_child"
    /\ LET q == ParentAt(root, last.id)
           i == last.key
       IN  /\ Len(q.pairs) <= max_pairs(degree)
           /\ Len(q.children[i + 1].pairs) = degree - 1
           /\ Len(q.children[i + 2].pairs) = degree - 1
           /\ ~is_leaf(q.children[i + 1])
           /\ i > 0

\* the largest number of entries a node of the subtree holds
RECURSIVE MaxEntries(_)
MaxEntries(node) ==
    LET here == Len(node.pairs)
        below == IF is_leaf(node) THEN {}
                 ELSE {MaxEntries(node.children[i]) : i \in 1..Len(node.children)}
    IN  CHOOSE m \in below \cup {here} : \A o \in below \cup {here} : o <= m

\* C14: during an insert the descent never moves to a full node and never
\* splits a child of a full node: where split_child is called the parent holds
\* fewer than 2t-1 entries, and where the key is absent the leaf returned for
\* the new entry holds fewer than 2t-1; afterwards no node holds more than 2t-1
\* entries.
C14_Descent ==
    [][ last'.op = "insert" =>
            LET log == insert(root, Pair(last'.id, last'.key, ValOf(last'.id)), degree).log
            IN  /\ \A s \in 1..Len(log) :
                       /\ log[s].ev \in {"enter", "split"} => log[s].n < 2 * degree - 1
                       /\ (log[s].ev = "return" /\ ~log[s].found) =>
                              log[s].n < 2 * degree - 1
                /\ MaxEntries(root') <= 2 * degree - 1
      ]_vars

\* the tree built from the keys 1..5 with degree 2 had the full leaf (3, 4, 5);
\* the insert made on it split that leaf on the way down
C14_Witness ==
    /\ degree = 2
    /\ last.op = "insert"
    /\ [i \in 1..Len(last.before) |-> last.before[i].id] = <<1, 2, 3, 4, 5>>
    /\ Len(root.pairs) = 2
    /\ Len(root.children[2].pairs) = 1
    /\ Len(root.children[3].pairs) = 1

\* a tree as the operations leave it when none has failed: the node
\* invariants hold and the root is empty only if it is a leaf
ValidTree(r, t) ==
    /\ NodeInvariants(r, TRUE, Unbounded, Unbounded, t)
    /\ Len(r.pairs) = 0 => is_leaf(r)

\* C15: during a delete or delete_one on a valid tree that holds the target,
\* every node other than the root that _delete is called on holds at least t
\* entries when it is called, and every merge_children call joins two
\* children of exactly t-1 entries into a node of exactly 2t-1 entries.
C15_Rebalanced ==
    [][ (/\ last'.op \in {"delete_one", "delete"}
         /\ ValidTree(root, degree)
         /\ \E e \in Range(iter(root)) :
                e.key = last'.key /\ (last'.op = "delete_one" => e.id = last'.id))
        => LET log == IF last'.op = "delete"
                      THEN delete(root, last'.key, degree).log
                      ELSE delete_one(root, Pair(last'.id, last'.key, ValOf(last'.id)),
                                      degree).log
           IN  \A s \in 2..Len(log) :
                   /\ log[s].ev = "call" => log[s].n >= degree
                   /\ log[s].ev = "merge" =>
                          /\ log[s].l = degree - 1
                          /\ log[s].r = degree - 1
                          /\ log[s].n = 2 * degree - 1
      ]_vars

\* delete(4) on the tree built from the keys 2, 4, ..., 20 with degree 2: the
\* child (4) of the root borrowed from its sibling (12, 16), and its leaves
\* (2) and (6) were merged around 4 before 4 was removed
C15_Witness ==
    /\ degree = 2
    /\ last.op = "delete"
    /\ last.key = 4
    /\ ~last.raised
    /\ calls = DeepCalls - 1
    /\ [i \in 1..Len(last.before) |-> last.before[i].id] = <<1, 2, 3, 4, 5, 6, 7, 8, 9, 10>>
    /\ root.pairs[1].key = 12
    /\ Len(root.children[1].children[1].pairs) = 2

\* C16: is_valid() returns True exactly when every node reachable from the
\* root satisfies the node invariants: the size bounds (at least t-1 entries
\* except in the root, at most 2t-1), one more child than entries, children
\* all absent or all present, entries in ascending order with no key twice in
\* a node, and keys strictly inside the interval the ancestors leave.
C16_ValidatorComplete ==
    is_valid(root, degree) <=> NodeInvariants(root, TRUE, Unbounded, Unbounded, degree)

\* the depths at which the subtree's leaves lie, the subtree's root being at
\* depth d
RECURSIVE LeafDepths(_, _)
LeafDepths(node, d) ==
    IF is_leaf(node) THEN {d}
    ELSE UNION {IF node.children[i] = None THEN {d}
                ELSE LeafDepths(node.children[i], d + 1) : i \in 1..Len(node.children)}

\* C17: in every state that insert, delete_one and delete reach, failed calls
\* included, all leaves of the tree are at the same depth.
C17_Balanced == Cardinality(LeafDepths(root, 1)) = 1

\* delete(2) on the tree built from the keys 2, 4, ..., 20 with degree 2: the
\* child (4) of the root took the separator 8 and the leaf (10) from its
\* sibling (12, 16), and the leaves (2) and (6) were merged
C17_Witness ==
    /\ degree = 2
    /\ last.op = "delete"
    /\ last.key = 2
    /\ ~last.raised
    /\ calls = DeepCalls - 1
    /\ [i \in 1..Len(last.before) |-> last.before[i].id] = <<1, 2, 3, 4, 5, 6, 7, 8, 9, 10>>
    /\ root.pairs[1].key = 12
    /\ root.children[1].pairs[1].key = 8
    /\ root.children[1].children[2].pairs[1].key = 10
    /\ LeafDepths(root, 1) = {3}

\* a delete_one or delete call has just raised
DeleteRaised == last.op \in {"delete_one", "delete"} /\ last.raised

\* C18: a delete or delete_one call that raises, for a key that is absent or
\* a Pair that is not the one in the tree, leaves the sequence the iteration
\* yields as it was, by identity and in order, whatever borrowing and merging
\* it did on the way down.
C18_FailedDeleteKeepsPairs == DeleteRaised => iter(root) = last.before

\* a call that raised after it had merged the two children of the root: the
\* root is left with no entry above the merged child
C18_Witness ==
    /\ DeleteRaised
    /\ Len(root.pairs) = 0
    /\ ~is_leaf(root)
    /\ Len(last.before) >= 3

\* every node of the subtree other than its root holds between t-1 and 2t-1
\* entries
RECURSIVE InnerSizes(_, _)
InnerSizes(node, t) ==
    is_leaf(node) \/
    \A i \in 1..Len(node.children) :
        /\ Len(node.children[i].pairs) >= t - 1
        /\ Len(node.children[i].pairs) <= 2 * t - 1
        /\ InnerSizes(node.children[i], t)

\* C19: after a delete or delete_one call that raised on a valid tree, the
\* root still has zero entries only if it is a leaf, every node other than the
\* root still holds between t-1 and 2t-1 entries, and the tree is as high as
\* it was before the call.
C19_FailedDeleteKeepsShape ==
    [][ (/\ last'.op \in {"delete_one", "delete"}
         /\ last'.raised
         /\ ValidTree(root, degree))
        => /\ Len(root'.pairs) = 0 => is_leaf(root')
           /\ InnerSizes(root', degree)
           /\ Height(root') = Height(root)
      ]_vars

====
